---- MODULE Spec2Model ----
(***************************************************************************)
(* Model of process_prompt.py: the batch publisher that renders prompt     *)
(* templates, calls the generation service, writes the completion locally  *)
(* and uploads it to the object store.                                     *)
(*                                                                         *)
(* An optional Python value (os.getenv without a default) is a sequence:   *)
(* <<>> is None and <<v>> is the string v.  A Jinja2 template is a         *)
(* sequence of tokens <<"lit", text>> and <<"var", name>>.                 *)
(***************************************************************************)
EXTENDS Integers, Sequences, FiniteSets, TLC

\* ---------- Bounds ----------
MaxJobs == 2        \* job definition files in prompts/
MaxRuns == 2        \* invocations of the script on the same inputs

\* ---------- Constants ----------
MODEL_ID == "anthropic.claude-3-sonnet-20240229-v1:0"

None == <<>>
Some(v) == <<v>>

\* Python truthiness of an optional string: None and "" are falsy.
Truthy(o) == o # None /\ o[1] # ""

\* Python `a or b`.
Or(a, b) == IF Truthy(a) THEN a ELSE b

\* ---------- Inputs the script reads ----------
\* The process environments explored.  In the first group the region
\* variables and the beta bucket are unset, empty or set and the run is for
\* the default selector; in the second the region is set and the selector,
\* both buckets and the beta prefix vary.
RegionEnvirons ==
    [AWS_REGION         : {None, Some(""), Some("us-east-1")},
     AWS_DEFAULT_REGION : {None, Some("eu-west-1")},
     S3_BUCKET_BETA     : {None, Some(""), Some("site-beta")},
     S3_BUCKET_PROD     : {None},
     BETA_PREFIX        : {None},
     PROD_PREFIX        : {None},
     DEPLOY_ENV         : {None}]

DeployEnvirons ==
    [AWS_REGION         : {Some("us-east-1")},
     AWS_DEFAULT_REGION : {None},
     S3_BUCKET_BETA     : {None, Some("site-beta")},
     S3_BUCKET_PROD     : {None, Some("site-prod")},
     BETA_PREFIX        : {None, Some("preview/")},
     PROD_PREFIX        : {None},
     DEPLOY_ENV         : {None, Some("prod"), Some("qa")}]

Environs == RegionEnvirons \cup DeployEnvirons

\* The prompt templates present in prompt_templates/.
TemplateFiles ==
    [p \in {"prompt_templates/report.txt", "prompt_templates/home.txt",
            "prompt_templates/copy.txt", "prompt_templates/guest.txt"} |->
        CASE p = "prompt_templates/report.txt" ->
                 << <<"lit", "Write report ">>, <<"var", "id">> >>
          [] p = "prompt_templates/home.txt" ->
                 << <<"lit", "Write the home page">> >>
          [] p = "prompt_templates/copy.txt" ->
                 << <<"lit", "Rewrite report ">>, <<"var", "id">> >>
          [] OTHER ->
                 << <<"lit", "Greet ">>, <<"var", "name">> >>]

\* The job definition files that prompts/ may hold.  `stem` is the base
\* name split at the "_prompt" marker, `json` says whether the text parses,
\* `cfg` is the parsed mapping.
JobFiles ==
    { [stem |-> <<"report", "_prompt">>, json |-> TRUE,
       cfg  |-> [variables   |-> [id |-> "42"],
                 output_file |-> << <<"lit", "report_">>, <<"var", "id">>,
                                    <<"lit", ".html">> >>]],
      [stem |-> <<"home", "_prompt">>, json |-> TRUE,
       cfg  |-> [variables   |-> <<>>,
                 output_file |-> << <<"lit", "index.html">> >>,
                 make_index  |-> TRUE]],
      [stem |-> <<"copy", "_prompt">>, json |-> TRUE,
       cfg  |-> [variables   |-> [id |-> "42"],
                 output_file |-> << <<"lit", "report_42.html">> >>,
                 make_index  |-> TRUE]],
      [stem |-> <<"guest", "_prompt">>, json |-> TRUE,
       cfg  |-> [variables   |-> <<>>,
                 output_file |-> << <<"lit", "page_">>, <<"var", "name">>,
                                    <<"lit", ".html">> >>,
                 make_index  |-> FALSE]],
      [stem |-> <<"orphan", "_prompt">>, json |-> TRUE,
       cfg  |-> [variables   |-> <<>>,
                 output_file |-> << <<"lit", "orphan.html">> >>]],
      [stem |-> <<"broken">>, json |-> FALSE, cfg |-> <<>>] }

\* What the generation service may answer.
Completions == {"<p>A</p>", "<p>B</p>"}

\* Directory listings: sequences of distinct job files, in glob order.
RECURSIVE Listings(_)
Listings(n) ==
    IF n = 0 THEN {<<>>}
    ELSE LET shorter == Listings(n - 1)
         IN  shorter \cup
             {Append(l, f) : l \in {s \in shorter : Len(s) = n - 1},
                             f \in JobFiles}

Distinct(l) == \A i, j \in 1..Len(l) : i # j => l[i] # l[j]

VARIABLES
    environ,     \* os.environ
    prompts,     \* the job files of prompts/, in iteration order
    pc,          \* position of main
    run,         \* which invocation of the script this is
    err,         \* the uncaught exception, NoError while there is none
    env,         \* main's parameter
    region, bucket, prefix,
    clients,     \* the boto3 clients constructed in this run
    idx,         \* index in prompts of the job being processed
    cfg, rendered_prompt, filename_rendered, completion,
    outputs,     \* the local directory outputs/: path -> text
    mkdirs,      \* whether outputs/ exists
    s3store,     \* the object store: <<bucket, key>> -> text
    genCalls,    \* this run's invoke_model calls
    writes,      \* this run's write_text calls
    uploads,     \* this run's upload_file calls
    answers,     \* this run's completions, per job index
    last         \* outputs, s3store and answers at the end of the previous run

vars == <<environ, prompts, pc, run, err, env, region, bucket, prefix, clients,
          idx, cfg, rendered_prompt, filename_rendered, completion, outputs,
          mkdirs, s3store, genCalls, writes, uploads, answers, last>>


\* ---------- Helpers ----------

\* os.getenv(name): None when the variable is unset.
getenv(name) == environ[name]

\* os.getenv(name, default): the default only when the variable is unset.
getenv_default(name, default) ==
    IF environ[name] = None THEN default ELSE environ[name][1]

BETA_PREFIX == getenv_default("BETA_PREFIX", "beta/")
PROD_PREFIX == getenv_default("PROD_PREFIX", "prod/")

\* `at` is the step of main the traceback points to.
NoError == [type |-> "", names |-> {}, at |-> ""]

\* The ValueError of get_region; `names` are the variables its message names.
RegionError == [type |-> "ValueError", names |-> {"AWS_REGION", "AWS_DEFAULT_REGION"}]

\* The ValueError of main for an undefined bucket.
BucketError(e) ==
    [type |-> "ValueError",
     names |-> {IF e = "beta" THEN "S3_BUCKET_BETA" ELSE "S3_BUCKET_PROD"}]

OtherError(t) == [type |-> t, names |-> {}]

\* get_region falling back to a built-in region instead of raising.
get_region_defaulted == Or(Or(getenv("AWS_REGION"), getenv("AWS_DEFAULT_REGION")),
                           Some("us-east-1"))

\* get_region: the region, or None where the code raises.
get_region == Or(getenv("AWS_REGION"), getenv("AWS_DEFAULT_REGION"))

\* The bucket selection falling back to the other environment's bucket.
select_bucket_fallback(e) ==
    IF e = "beta" THEN Or(getenv("S3_BUCKET_BETA"), getenv("S3_BUCKET_PROD"))
    ELSE Or(getenv("S3_BUCKET_PROD"), getenv("S3_BUCKET_BETA"))

\* The bucket main selects for environment e (an optional value).
select_bucket(e) ==
    IF e = "beta" THEN getenv("S3_BUCKET_BETA") ELSE getenv("S3_BUCKET_PROD")

\* The prefix selection treating every selector but "prod" as beta.
select_prefix_beta_default(e) == IF e = "prod" THEN PROD_PREFIX ELSE BETA_PREFIX

select_prefix(e) == IF e = "beta" THEN BETA_PREFIX ELSE PROD_PREFIX

\* Jinja2 rendering with the default Undefined: a name missing from the
\* variables renders as the empty string and raises nothing.
RECURSIVE Render(_, _)
Render(template, variables) ==
    IF template = <<>> THEN ""
    ELSE LET tok == Head(template)
             text == IF tok[1] = "lit" THEN tok[2]
                     ELSE IF tok[2] \in DOMAIN variables THEN variables[tok[2]]
                     ELSE ""
         IN  text \o Render(Tail(template), variables)

\* config_path.stem.replace('_prompt', '')
RECURSIVE stem_replace(_)
stem_replace(stem) ==
    IF stem = <<>> THEN ""
    ELSE (IF Head(stem) = "_prompt" THEN "" ELSE Head(stem))
         \o stem_replace(Tail(stem))

tmpl_file_of(file) == "prompt_templates/" \o stem_replace(file.stem) \o ".txt"

\* construct_body: the message content sent to the service.
construct_body(prompt, max_tokens) ==
    [max_tokens |-> max_tokens, content |-> "Human: " \o prompt]

\* One fixed output path whatever the job's filename.
out_file_fixed(filename) == "outputs/output.html"

\* pathlib.Path("outputs") / filename
out_file_of(filename) ==
    IF filename = "" THEN "outputs" ELSE "outputs/" \o filename

\* cfg.get("make_index", True)
make_index_default_true(c) == IF "make_index" \in DOMAIN c THEN c["make_index"] ELSE TRUE

\* cfg.get("make_index", False)
make_index_of(c) == IF "make_index" \in DOMAIN c THEN c["make_index"] ELSE FALSE

\* A mapping that keeps what key k already holds.
Put_keep(f, k, v) ==
    [x \in DOMAIN f \cup {k} |-> IF x \in DOMAIN f THEN f[x] ELSE v]

\* A mapping that appends v to what key k already holds.
Put_append(f, k, v) ==
    [x \in DOMAIN f \cup {k} |->
        IF x # k THEN f[x] ELSE IF k \in DOMAIN f THEN f[k] \o v ELSE v]

\* A mapping with key k bound to v: write_text and upload_file replace what
\* the path or key held.
Put(f, k, v) == [x \in DOMAIN f \cup {k} |-> IF x = k THEN v ELSE f[x]]

EmptyMap == [x \in {} |-> ""]

NoSnapshot == [taken |-> FALSE, outputs |-> EmptyMap, s3store |-> EmptyMap,
               answers |-> EmptyMap]

\* ---------- Initial state ----------
Init ==
    /\ environ \in Environs
    /\ prompts \in {l \in Listings(MaxJobs) : Distinct(l)}
    /\ pc = "start"
    /\ run = 1
    /\ err = NoError
    /\ env = ""
    /\ region = ""
    /\ bucket = ""
    /\ prefix = ""
    /\ clients = {}
    /\ idx = 0
    /\ cfg = EmptyMap
    /\ rendered_prompt = ""
    /\ filename_rendered = ""
    /\ completion = ""
    /\ outputs = EmptyMap
    /\ mkdirs = FALSE
    /\ s3store = EmptyMap
    /\ genCalls = <<>>
    /\ writes = <<>>
    /\ uploads = <<>>
    /\ answers = EmptyMap
    /\ last = NoSnapshot

\* The exception e is recorded and the loop goes on to the next job.
Raise_and_continue(e) ==
    /\ pc' = "loop"
    /\ err' = [type |-> e.type, names |-> e.names, at |-> pc]

\* The uncaught exception e ends the run.
Raise(e) ==
    /\ pc' = "failed"
    /\ err' = [type |-> e.type, names |-> e.names, at |-> pc]

\* ---------- main ----------

\* Lines 113 and 57: main is entered with DEPLOY_ENV (default "beta") and
\* resolves the region.
GetRegion ==
    /\ pc = "start"
    /\ env' = getenv_default("DEPLOY_ENV", "beta")
    /\ IF Truthy(get_region)
       THEN /\ region' = get_region[1]
            /\ pc' = "s3client"
            /\ err' = err
       ELSE /\ Raise(RegionError)
            /\ region' = region
    /\ UNCHANGED <<environ, prompts, run, bucket, prefix, clients, idx, cfg,
                   rendered_prompt, filename_rendered, completion, outputs,
                   mkdirs, s3store, genCalls, writes, uploads, answers, last>>

\* Line 58: the object-store client.
MakeS3Client ==
    /\ pc = "s3client"
    /\ clients' = clients \cup {"s3"}
    /\ pc' = "bucket"
    /\ UNCHANGED <<environ, prompts, run, err, env, region, bucket, prefix, idx,
                   cfg, rendered_prompt, filename_rendered, completion, outputs,
                   mkdirs, s3store, genCalls, writes, uploads, answers, last>>

\* Lines 60-72: the bucket and the prefix of the environment, then outputs/.
ResolveBucket ==
    /\ pc = "bucket"
    /\ IF Truthy(select_bucket(env))
       THEN /\ bucket' = select_bucket(env)[1]
            /\ prefix' = select_prefix(env)
            /\ mkdirs' = TRUE
            /\ pc' = "loop"
            /\ err' = err
       ELSE /\ Raise(BucketError(env))
            /\ UNCHANGED <<bucket, prefix, mkdirs>>
    /\ UNCHANGED <<environ, prompts, run, env, region, clients, idx, cfg,
                   rendered_prompt, filename_rendered, completion, outputs,
                   s3store, genCalls, writes, uploads, answers, last>>

\* Lines 74-75: the next job file of the glob, parsed; the run is over when
\* the glob is exhausted.
NextJob ==
    /\ pc = "loop"
    /\ IF idx = Len(prompts)
       THEN /\ pc' = "done"
            /\ UNCHANGED <<idx, cfg, err>>
       ELSE /\ idx' = idx + 1
            /\ IF prompts[idx + 1].json
               THEN /\ cfg' = prompts[idx + 1].cfg
                    /\ pc' = "render"
                    /\ err' = err
               ELSE /\ Raise(OtherError("JSONDecodeError"))
                    /\ cfg' = cfg
    /\ UNCHANGED <<environ, prompts, run, env, region, bucket, prefix, clients,
                   rendered_prompt, filename_rendered, completion, outputs,
                   mkdirs, s3store, genCalls, writes, uploads, answers, last>>

\* Lines 78-79 (render_prompt): read the template file and render it.
RenderPrompt ==
    /\ pc = "render"
    /\ LET tmpl_file == tmpl_file_of(prompts[idx])
       IN  IF tmpl_file \notin DOMAIN TemplateFiles
           THEN Raise(OtherError("FileNotFoundError")) /\ rendered_prompt' = rendered_prompt
           ELSE IF "variables" \notin DOMAIN cfg
           THEN Raise(OtherError("KeyError")) /\ rendered_prompt' = rendered_prompt
           ELSE /\ rendered_prompt' = Render(TemplateFiles[tmpl_file], cfg["variables"])
                /\ pc' = "filename"
                /\ err' = err
    /\ UNCHANGED <<environ, prompts, run, env, region, bucket, prefix, clients,
                   idx, cfg, filename_rendered, completion, outputs, mkdirs,
                   s3store, genCalls, writes, uploads, answers, last>>

\* Line 82: the output filename is rendered the same way.
RenderFilename ==
    /\ pc = "filename"
    /\ IF {"output_file", "variables"} \subseteq DOMAIN cfg
       THEN /\ filename_rendered' = Render(cfg["output_file"], cfg["variables"])
            /\ pc' = "bedrock"
            /\ err' = err
       ELSE /\ Raise(OtherError("KeyError"))
            /\ filename_rendered' = filename_rendered
    /\ UNCHANGED <<environ, prompts, run, env, region, bucket, prefix, clients,
                   idx, cfg, rendered_prompt, completion, outputs, mkdirs,
                   s3store, genCalls, writes, uploads, answers, last>>

\* Line 85 (call_bedrock): a client is made, the model is invoked once and
\* either answers or raises.
CallBedrock ==
    /\ pc = "bedrock"
    /\ clients' = clients \cup {"bedrock-runtime"}
    /\ genCalls' = Append(genCalls, [job |-> idx, modelId |-> MODEL_ID,
                                     body |-> construct_body(rendered_prompt, 300)])
    /\ \/ \E text \in Completions :
            /\ completion' = text
            /\ answers' = Put(answers, idx, text)
            /\ pc' = "write"
            /\ err' = err
       \/ /\ Raise(OtherError("ClientError"))
          /\ UNCHANGED <<completion, answers>>
    /\ UNCHANGED <<environ, prompts, run, env, region, bucket, prefix, idx, cfg,
                   rendered_prompt, filename_rendered, outputs, mkdirs, s3store,
                   writes, uploads, last>>

\* The local write left out: the job goes straight to its upload.
WriteLocal_skipped ==
    /\ pc = "write"
    /\ pc' = "upload"
    /\ UNCHANGED <<environ, prompts, run, err, env, region, bucket, prefix,
                   clients, idx, cfg, rendered_prompt, filename_rendered,
                   completion, outputs, mkdirs, s3store, genCalls, writes,
                   uploads, answers, last>>

\* Lines 88-89: the completion replaces the local file.
WriteLocal ==
    /\ pc = "write"
    /\ LET out_file == out_file_of(filename_rendered)
       IN  \/ /\ out_file # "outputs"
              /\ outputs' = Put(outputs, out_file, completion)
              /\ writes' = Append(writes, [job |-> idx, path |-> out_file,
                                           text |-> completion])
              /\ pc' = "upload"
              /\ err' = err
           \/ /\ Raise(OtherError("OSError"))
              /\ UNCHANGED <<outputs, writes>>
    /\ UNCHANGED <<environ, prompts, run, env, region, bucket, prefix, clients,
                   idx, cfg, rendered_prompt, filename_rendered, completion,
                   mkdirs, s3store, genCalls, uploads, answers, last>>

\* s3.upload_file(path, bucket, key): the bytes of the local file go to the key.
upload_file(path, b, key) ==
    /\ path \in DOMAIN outputs
    /\ s3store' = Put(s3store, <<b, key>>, outputs[path])
    /\ uploads' = Append(uploads, [job |-> idx, bucket |-> b, key |-> key,
                                   text |-> outputs[path]])

\* Lines 92-99: the primary upload.
UploadOriginal ==
    /\ pc = "upload"
    /\ LET out_file == out_file_of(filename_rendered)
           s3_key == prefix \o filename_rendered
       IN  \/ /\ upload_file(out_file, bucket, s3_key)
              /\ pc' = "index"
              /\ err' = err
           \/ /\ Raise(OtherError("S3UploadFailedError"))
              /\ UNCHANGED <<s3store, uploads>>
    /\ UNCHANGED <<environ, prompts, run, env, region, bucket, prefix, clients,
                   idx, cfg, rendered_prompt, filename_rendered, completion,
                   outputs, mkdirs, genCalls, writes, answers, last>>

\* Lines 102-110: the optional index upload, then back to the loop.
UploadIndex ==
    /\ pc = "index"
    /\ LET out_file == out_file_of(filename_rendered)
           index_key == prefix \o "index.html"
       IN  IF make_index_of(cfg)
           THEN \/ /\ upload_file(out_file, bucket, index_key)
                   /\ pc' = "loop"
                   /\ err' = err
                \/ /\ Raise(OtherError("S3UploadFailedError"))
                   /\ UNCHANGED <<s3store, uploads>>
           ELSE /\ pc' = "loop"
                /\ UNCHANGED <<s3store, uploads, err>>
    /\ UNCHANGED <<environ, prompts, run, env, region, bucket, prefix, clients,
                   idx, cfg, rendered_prompt, filename_rendered, completion,
                   outputs, mkdirs, genCalls, writes, answers, last>>

\* Lines 112-113: after a run that completed, the script is invoked again on
\* the same inputs; the local directory and the object store are what the
\* previous run left.
Rerun ==
    /\ pc = "done"
    /\ run < MaxRuns
    /\ run' = run + 1
    /\ last' = [taken |-> TRUE, outputs |-> outputs,
                s3store |-> s3store, answers |-> answers]
    /\ pc' = "start"
    /\ err' = NoError
    /\ env' = ""
    /\ region' = ""
    /\ bucket' = ""
    /\ prefix' = ""
    /\ clients' = {}
    /\ idx' = 0
    /\ cfg' = EmptyMap
    /\ rendered_prompt' = ""
    /\ filename_rendered' = ""
    /\ completion' = ""
    /\ genCalls' = <<>>
    /\ writes' = <<>>
    /\ uploads' = <<>>
    /\ answers' = EmptyMap
    /\ UNCHANGED <<environ, prompts, outputs, mkdirs, s3store>>

Next ==
    \/ GetRegion
    \/ MakeS3Client
    \/ ResolveBucket
    \/ NextJob
    \/ RenderPrompt
    \/ RenderFilename
    \/ CallBedrock
    \/ WriteLocal
    \/ UploadOriginal
    \/ UploadIndex
    \/ Rerun

Spec == Init /\ [][Next]_vars


\* ---------- Properties ----------

\* The environment selector the script is run with.
Selector == IF environ.DEPLOY_ENV = None THEN "beta" ELSE environ.DEPLOY_ENV[1]

Unset(name) == environ[name] = None \/ environ[name] = Some("")

BucketVar == IF Selector = "beta" THEN "S3_BUCKET_BETA" ELSE "S3_BUCKET_PROD"

RegionUnset == Unset("AWS_REGION") /\ Unset("AWS_DEFAULT_REGION")

\* No job has been touched in this run.
NothingProcessed ==
    idx = 0 /\ genCalls = <<>> /\ writes = <<>> /\ uploads = <<>>

InJobs == {"loop", "render", "filename", "bedrock", "write", "upload", "index", "done"}

\* C1 as stated: whenever the bucket variable of the selected environment is
\* unset or empty, the run never reaches the jobs, processes nothing, and the
\* error it ends in names that bucket variable.
C1_BucketErrorAlways ==
    Unset(BucketVar) =>
        /\ pc \notin InJobs
        /\ NothingProcessed
        /\ (pc = "failed" => err.type = "ValueError" /\ err.names = {BucketVar})

\* C1 amended: the same, provided a region is set; without a region the run
\* ends earlier in the region error.
C1_BucketErrorGivenRegion ==
    (Unset(BucketVar) /\ ~RegionUnset) =>
        /\ pc \notin InJobs
        /\ NothingProcessed
        /\ (pc = "failed" => err.type = "ValueError" /\ err.names = {BucketVar})

C1_Witness ==
    /\ pc = "failed"
    /\ Selector = "beta"
    /\ Unset("S3_BUCKET_BETA")
    /\ err.names = {"S3_BUCKET_BETA"}
    /\ prompts # <<>>

\* C2: with no region variable set the run ends in an error naming both
\* region variables, no client is ever constructed and the bucket is never
\* resolved, whether or not the bucket variable is set.
C2_RegionErrorFirst ==
    RegionUnset =>
        /\ pc \in {"start", "failed"}
        /\ clients = {}
        /\ bucket = ""
        /\ NothingProcessed
        /\ (pc = "failed" =>
               err.type = "ValueError" /\ err.names = {"AWS_REGION", "AWS_DEFAULT_REGION"})

C2_Witness ==
    /\ pc = "failed"
    /\ RegionUnset
    /\ ~Unset(BucketVar)
    /\ err.names = {"AWS_REGION", "AWS_DEFAULT_REGION"}


\* ---------- Per-job views used by the properties ----------

JobIds == 1..Len(prompts)

\* The job definition's fields, read from the file itself.
Variables(j) == prompts[j].cfg.variables
MakeIndex(j) ==
    "make_index" \in DOMAIN prompts[j].cfg /\ prompts[j].cfg.make_index

\* The rendered output filename of job j.
FileName(j) == Render(prompts[j].cfg.output_file, Variables(j))

\* The prefix and bucket of the selected environment, read from os.environ.
ExpectedPrefix ==
    IF Selector = "beta"
    THEN (IF environ.BETA_PREFIX = None THEN "beta/" ELSE environ.BETA_PREFIX[1])
    ELSE (IF environ.PROD_PREFIX = None THEN "prod/" ELSE environ.PROD_PREFIX[1])

ExpectedBucket == environ[BucketVar][1]

PrimaryKey(j) == ExpectedPrefix \o FileName(j)
IndexKey == ExpectedPrefix \o "index.html"

\* The keys job j uploads to.
Targets(j) == {PrimaryKey(j)} \cup (IF MakeIndex(j) THEN {IndexKey} ELSE {})

JobUploads(j) == SelectSeq(uploads, LAMBDA u : u.job = j)
JobWrites(j) == SelectSeq(writes, LAMBDA w : w.job = j)
JobCalls(j) == SelectSeq(genCalls, LAMBDA g : g.job = j)

\* Job j went through all its steps in this run.
JobDone(j) == j < idx \/ (j = idx /\ pc \in {"loop", "done"})

\* C3: a job that completed has made exactly two uploads when make_index is
\* true, the first under prefix+filename and the second under
\* prefix+"index.html", both carrying that job's completion, and exactly one
\* upload, under prefix+filename, when make_index is false or absent.
C3_UploadsPerJob ==
    \A j \in JobIds :
        JobDone(j) =>
            LET ups == JobUploads(j)
            IN  IF MakeIndex(j)
                THEN /\ Len(ups) = 2
                     /\ ups[1].key = PrimaryKey(j)
                     /\ ups[2].key = IndexKey
                     /\ ups[1].text = answers[j]
                     /\ ups[2].text = answers[j]
                ELSE /\ Len(ups) = 1
                     /\ ups[1].key = PrimaryKey(j)
                     /\ ups[1].text = answers[j]

C3_Witness ==
    \E i, j \in JobIds :
        /\ JobDone(i) /\ MakeIndex(i) /\ Len(JobUploads(i)) = 2
        /\ JobDone(j) /\ "make_index" \notin DOMAIN prompts[j].cfg
        /\ Len(JobUploads(j)) = 1

RECURSIVE ObjectsPerJob(_)
ObjectsPerJob(j) ==
    IF j = 0 THEN 0 ELSE (IF MakeIndex(j) THEN 2 ELSE 1) + ObjectsPerJob(j - 1)

\* C4 as stated: after a completed run there are as many distinct local
\* files as jobs and one remote object per job, two for a make_index job.
C4_OneFilePerJob ==
    pc = "done" =>
        /\ Cardinality(DOMAIN outputs) = Len(prompts)
        /\ Cardinality(DOMAIN s3store) = ObjectsPerJob(Len(prompts))

\* C4 amended: after a completed run every job has made exactly one local
\* write and one upload, two when make_index is set; the distinct local files
\* are as many as the distinct rendered filenames and the remote objects as
\* many as the distinct keys targeted, never more than the per-job counts.
C4_OneWritePerJob ==
    pc = "done" =>
        /\ \A j \in JobIds :
              /\ Len(JobWrites(j)) = 1
              /\ Len(JobUploads(j)) = IF MakeIndex(j) THEN 2 ELSE 1
        /\ Cardinality(DOMAIN outputs) = Cardinality({FileName(j) : j \in JobIds})
        /\ Cardinality(DOMAIN s3store) = Cardinality(UNION {Targets(j) : j \in JobIds})
        /\ Cardinality(DOMAIN outputs) <= Len(prompts)
        /\ Cardinality(DOMAIN s3store) <= ObjectsPerJob(Len(prompts))

C4_Witness ==
    /\ pc = "done"
    /\ Len(prompts) = 2
    /\ Cardinality(DOMAIN outputs) = 1
    /\ Cardinality(DOMAIN s3store) = 2

\* C5: a completed run raised no error, and every local path and every
\* remote key holds the completion of the last job in iteration order that
\* writes it, the index key included.
C5_LastWriteWins ==
    pc = "done" =>
        /\ err = NoError
        /\ \A j \in JobIds :
              /\ (\A k \in JobIds : k > j => FileName(k) # FileName(j)) =>
                     outputs["outputs/" \o FileName(j)] = answers[j]
              /\ \A t \in Targets(j) :
                     (\A k \in JobIds : k > j => t \notin Targets(k)) =>
                         s3store[<<ExpectedBucket, t>>] = answers[j]

C5_Witness ==
    /\ pc = "done"
    /\ \E i, j \in JobIds :
          /\ i < j
          /\ FileName(i) = FileName(j)
          /\ answers[i] # answers[j]
          /\ outputs["outputs/" \o FileName(j)] = answers[j]
          /\ s3store[<<ExpectedBucket, PrimaryKey(j)>>] = answers[j]

\* C6 as stated: after a second completed run the local files and the
\* remote objects are those of the first run, with identical content.
C6_RerunIdentical ==
    (pc = "done" /\ last.taken) =>
        /\ outputs = last.outputs
        /\ s3store = last.s3store

\* C6 amended: after a second completed run the local paths and the remote
\* keys are those of the first run and each holds one whole completion,
\* nothing duplicated or appended; the content is identical when the
\* generation service gave every job the answer it gave in the first run.
C6_RerunSameKeys ==
    (pc = "done" /\ last.taken) =>
        /\ DOMAIN outputs = DOMAIN last.outputs
        /\ DOMAIN s3store = DOMAIN last.s3store
        /\ \A p \in DOMAIN outputs : outputs[p] \in Completions
        /\ \A k \in DOMAIN s3store : s3store[k] \in Completions
        /\ (answers = last.answers =>
               outputs = last.outputs /\ s3store = last.s3store)

C6_Witness ==
    /\ pc = "done"
    /\ last.taken
    /\ answers = last.answers
    /\ Cardinality(DOMAIN outputs) = 2
    /\ outputs = last.outputs
    /\ s3store = last.s3store


\* C7: an exception ends the run where it is raised and nothing happens
\* after it; no job after the one being processed has a generation call, a
\* write or an upload, and no step of a job is made twice in a run.
C7_NoIsolationNoRetry ==
    /\ [](/\ (pc = "failed") <=> (err # NoError)
          /\ \A j \in JobIds :
                /\ j > idx =>
                      JobCalls(j) = <<>> /\ JobWrites(j) = <<>> /\ JobUploads(j) = <<>>
                /\ Len(JobCalls(j)) <= 1
                /\ Len(JobWrites(j)) <= 1
                /\ Len(JobUploads(j)) <= (IF MakeIndex(j) THEN 2 ELSE 1))
    /\ [][(err' # NoError /\ err = NoError) =>
              (pc' = "failed" /\ err'.at = pc /\ idx' <= Len(prompts))]_vars
    /\ [][pc = "failed" =>
              (pc' = "failed" /\
               UNCHANGED <<idx, genCalls, writes, uploads, outputs, s3store>>)]_vars

C7_Witness ==
    /\ pc = "failed"
    /\ err.at = "bedrock"
    /\ idx = 1
    /\ Len(prompts) = 2
    /\ Len(genCalls) = 1

\* Template t names a variable that the mapping does not hold.
MissingVariable(t, variables) ==
    \E i \in 1..Len(t) : t[i][1] = "var" /\ t[i][2] \notin DOMAIN variables

\* Job j's template file is missing, or its prompt or output_file template
\* names a variable its mapping does not hold.
RenderMustFail(j) ==
    /\ prompts[j].json
    /\ \/ tmpl_file_of(prompts[j]) \notin DOMAIN TemplateFiles
       \/ MissingVariable(TemplateFiles[tmpl_file_of(prompts[j])], Variables(j))
       \/ MissingVariable(prompts[j].cfg.output_file, Variables(j))

\* C8: a job whose template file is missing or whose templates name a
\* variable missing from its mapping never gets past rendering: the run stops
\* there and the job has no generation call, no write and no upload.
C8_RenderFails ==
    \A j \in JobIds :
        (j <= idx /\ RenderMustFail(j)) =>
            /\ idx = j
            /\ pc \in {"render", "filename", "failed"}
            /\ JobCalls(j) = <<>>
            /\ JobWrites(j) = <<>>
            /\ JobUploads(j) = <<>>

\* C9: every upload goes to the bucket of the selected environment, under
\* the prefix of that environment followed by the job's rendered filename or
\* by "index.html"; any selector other than "beta" selects prod and is no
\* error; "report_{{ id }}.html" with id "42" is uploaded as
\* prefix+"report_42.html".
C9_UploadTargets ==
    /\ \A i \in 1..Len(uploads) :
          /\ uploads[i].bucket = ExpectedBucket
          /\ uploads[i].key \in {PrimaryKey(uploads[i].job), IndexKey}
    /\ \A j \in JobIds :
          (prompts[j].stem = <<"report", "_prompt">> /\ JobUploads(j) # <<>>) =>
              JobUploads(j)[1].key = ExpectedPrefix \o "report_42.html"
    /\ (Selector # "beta" /\ ~RegionUnset /\ ~Unset("S3_BUCKET_PROD")) =>
          err.type # "ValueError"

C9_Witness ==
    /\ Selector = "qa"
    /\ \E i \in 1..Len(uploads) :
          /\ uploads[i].bucket = "site-prod"
          /\ uploads[i].key = "prod/report_42.html"
    /\ \E i \in 1..Len(uploads) : uploads[i].key = "prod/index.html"

\* C10: a job's steps come in the order generation call, local write,
\* primary upload, index upload.  What a job uploads is what it wrote to its
\* local file, a job writes only after its generation call answered, and a
\* job's index upload follows its primary upload.  A failed generation call
\* leaves the job without write and upload; a failed primary upload leaves
\* its local file written and nothing uploaded by it.
C10_StepOrder ==
    /\ \A i \in 1..Len(uploads) :
          LET ws == JobWrites(uploads[i].job)
          IN  /\ Len(ws) = 1
              /\ ws[1].text = uploads[i].text
              /\ ws[1].path = "outputs/" \o FileName(uploads[i].job)
    /\ \A j \in JobIds :
          /\ JobWrites(j) # <<>> =>
                /\ Len(JobCalls(j)) = 1
                /\ j \in DOMAIN answers
                /\ JobWrites(j)[1].text = answers[j]
          /\ JobUploads(j) # <<>> => JobUploads(j)[1].key = PrimaryKey(j)
          /\ Len(JobUploads(j)) >= 2 => JobUploads(j)[2].key = IndexKey
    /\ (pc = "failed" /\ err.at = "bedrock") =>
          /\ Len(JobCalls(idx)) = 1
          /\ JobWrites(idx) = <<>>
          /\ JobUploads(idx) = <<>>
    /\ (pc = "failed" /\ err.at = "upload") =>
          /\ Len(JobWrites(idx)) = 1
          /\ outputs["outputs/" \o FileName(idx)] = answers[idx]
          /\ JobUploads(idx) = <<>>

C10_Witness ==
    /\ pc = "failed"
    /\ err.at = "upload"
    /\ idx = 2
    /\ Len(JobWrites(2)) = 1
    /\ JobUploads(2) = <<>>
    /\ Len(uploads) >= 1

====
